---- MODULE Spec2Model ----
(***************************************************************************)
(* Route groups of the router (package routing, group.go): path prefixes,  *)
(* handler chains held in Go slices, route creation, and the reflective    *)
(* controller registrar.  Route, Router and Methods live in other files of *)
(* the package and are modelled at the boundary group.go uses.             *)
(*                                                                         *)
(* Strings are sequences of one-character strings, so that concatenation,  *)
(* splitting and case conversion are computed, not assumed.                *)
(* A Go slice is a header [arr, len, cap] over a backing array kept in     *)
(* `heap`; two headers with the same arr share their cells.                *)
(***************************************************************************)
EXTENDS Integers, Sequences, FiniteSets

VARIABLES
    heap,      \* backing arrays of []Handler: heap[a] is a sequence of cap cells
    groups,    \* RouteGroup objects; the index is the *RouteGroup pointer
    fork,      \* history: for each group, its parent and how it was forked
    args,      \* []Handler slices owned by the application (passed as hs...)
    routes,    \* Route objects made by newRoute; the index is the *Route pointer
    regs,      \* registrations made by Route.add, in order
    call,      \* the controller method invoked for the latest request, if any
    fault,     \* "none", or the run-time panic that aborted the last operation
    last       \* history: the last operation and its inputs

vars == <<heap, groups, fork, args, routes, regs, call, fault, last>>

\* ------------------------------------------------------------------ bounds
MaxGroups == 3
MaxChain == 2
MaxShared == 1
MaxRoutes == 1
MaxControllers == 1
Slack == 1

\* ----------------------------------------------------------------- strings
IsPrefix(s, t) == Len(s) <= Len(t) /\ SubSeq(t, 1, Len(s)) = s

Comma == ","
Slash == "/"

Uppers == <<"A", "B", "C", "D", "E", "F", "G", "H", "I", "J", "K", "L", "M",
            "N", "O", "P", "Q", "R", "S", "T", "U", "V", "W", "X", "Y", "Z">>
Lowers == <<"a", "b", "c", "d", "e", "f", "g", "h", "i", "j", "k", "l", "m",
            "n", "o", "p", "q", "r", "s", "t", "u", "v", "w", "x", "y", "z">>

IsUpper(c) == \E i \in 1..Len(Uppers) : Uppers[i] = c
ToLower(c) == IF IsUpper(c) THEN Lowers[CHOOSE i \in 1..Len(Uppers) : Uppers[i] = c]
              ELSE c

\* inflections.Underscore: UserAccount -> user_account.  Every upper-case
\* letter is lowered, and one that is not the first gets "_" before it.
RECURSIVE UnderscoreFrom(_, _)
UnderscoreFrom(s, first) ==
    IF s = <<>> THEN <<>>
    ELSE (IF IsUpper(Head(s)) /\ ~first THEN <<"_">> ELSE <<>>)
         \o <<ToLower(Head(s))>> \o UnderscoreFrom(Tail(s), FALSE)

Underscore(s) == UnderscoreFrom(s, TRUE)

\* strings.Split(s, sep) for a one-character sep: the pieces between the
\* separators, one more than there are separators ("" gives one empty piece).
RECURSIVE SplitFrom(_, _, _, _)
SplitFrom(s, sep, cur, acc) ==
    IF s = <<>> THEN Append(acc, cur)
    ELSE IF Head(s) = sep THEN SplitFrom(Tail(s), sep, <<>>, Append(acc, cur))
    ELSE SplitFrom(Tail(s), sep, Append(cur, Head(s)), acc)

Split(s, sep) == SplitFrom(s, sep, <<>>, <<>>)

\* The pieces joined again with sep between them.
RECURSIVE Join(_, _)
Join(pieces, sep) ==
    IF pieces = <<>> THEN <<>>
    ELSE IF Len(pieces) = 1 THEN pieces[1]
    ELSE pieces[1] \o <<sep>> \o Join(Tail(pieces), sep)

\* ------------------------------------------------------------- Go slices
\* The zero value of Handler.
NilHandler == "nil"

NilSlice == [arr |-> 0, len |-> 0, cap |-> 0]

\* Addresses of backing arrays; a free address holds <<>>.  Fresh is the
\* address a new array gets until the operation that made it has returned.
MaxArrays == MaxGroups + MaxShared
Fresh == MaxArrays + 1
Arrays == 1..Fresh

\* The elements s[0:len] of slice s.
Elems(h, s) == IF s.len = 0 THEN <<>> ELSE SubSeq(h[s.arr], 1, s.len)

Pad(xs, n) == xs \o [i \in 1..(n - Len(xs)) |-> NilHandler]

\* A fresh array of cap cells holding xs (make, or the slice the compiler
\* builds for a variadic call); a zero-capacity slice has no cells.
Alloc(h, xs, cap) ==
    IF cap = 0 THEN [heap |-> h, slice |-> NilSlice]
    ELSE [heap |-> [h EXCEPT ![Fresh] = Pad(xs, cap)],
          slice |-> [arr |-> Fresh, len |-> Len(xs), cap |-> cap]]

\* append(s, xs...): in place when the capacity suffices, else a new array of
\* capacity newcap (chosen by the runtime, at least the needed length).
GoAppend(h, s, xs, newcap) ==
    IF Len(xs) = 0 THEN [heap |-> h, slice |-> s]
    ELSE IF s.len + Len(xs) <= s.cap
    THEN [heap |-> [h EXCEPT ![s.arr] =
                      [i \in 1..s.cap |->
                         IF i > s.len /\ i <= s.len + Len(xs)
                         THEN xs[i - s.len] ELSE @[i]]],
          slice |-> [s EXCEPT !.len = s.len + Len(xs)]]
    ELSE Alloc(h, Elems(h, s) \o xs, newcap)

\* The capacities a new array for n elements may have: the runtime chooses
\* one when append must grow, the application when it makes a slice.
GrowCaps(n) == n..(n + Slack)

\* The slice headers that keep arrays alive: those of the groups gs, then
\* those the application holds (as).
Refs(gs, as) ==
    [i \in 1..(Len(gs) + Len(as)) |->
       IF i <= Len(gs) THEN gs[i].handlers ELSE as[i - Len(gs)]]

\* Addresses are not observable by the program, and neither are the cells no
\* slice reaches: arrays no slice refers to are freed, a live array is placed
\* at the position in Refs of the first header that mentions it, and cells
\* beyond every header's length are cleared.
Owner(refs, a) ==
    CHOOSE i \in 1..Len(refs) :
        refs[i].arr = a /\ \A j \in 1..(i - 1) : refs[j].arr # a

Rename(refs, s) == IF s.arr = 0 THEN s ELSE [s EXCEPT !.arr = Owner(refs, s.arr)]

Reach(refs, a) ==
    LET lens == {refs[i].len : i \in {j \in 1..Len(refs) : refs[j].arr = a}}
    IN  CHOOSE n \in lens : \A m \in lens : m <= n

Collect(h, gs, as) ==
    LET refs == Refs(gs, as)
    IN  [heap |-> [n \in Arrays |->
                     IF n <= Len(refs) /\ refs[n].arr # 0
                        /\ Owner(refs, refs[n].arr) = n
                     THEN LET a == refs[n].arr
                              m == Reach(refs, a)
                          IN  [i \in 1..Len(h[a]) |->
                                 IF i <= m THEN h[a][i] ELSE NilHandler]
                     ELSE <<>>],
         groups |-> [g \in 1..Len(gs) |->
                       [gs[g] EXCEPT !.handlers = Rename(refs, @)]],
         args |-> [i \in 1..Len(as) |-> Rename(refs, as[i])]]

\* ----------------------------------------------------------------- groups
Router == "router"

newRouteGroup(prefix, router, handlers) ==
    [prefix |-> prefix, router |-> router, handlers |-> handlers]

\* The handler chain of group g as a sequence, in a given heap.
ChainIn(h, gs, g) == Elems(h, gs[g].handlers)

Chain(g) == ChainIn(heap, groups, g)

GroupIds == 1..Len(groups)

\* Inputs of the operations.
Suffixes == {<<"/", "a", "p", "i">>, <<"/", "v", "1">>}
UseLists == {<<"h1">>, <<"h2">>, <<"h3">>, <<"h1", "h2">>}
GroupLists == {<<>>, <<"h2">>}
SpreadLists == {<<"h2">>}

Op(op, g, path, hs) ==
    [op |-> op, g |-> g, path |-> path, hs |-> hs, methods |-> <<>>,
     how |-> "", nroutes |-> Len(routes), nregs |-> Len(regs),
     done |-> last.done]

\* Group, lines 131-134, when no handler is given: a fresh array of exactly
\* len(r.handlers) cells, filled by copy.
AliasHandlers(h, s) == [heap |-> h, slice |-> s]

InheritHandlers(h, s) == Alloc(h, Elems(h, s), s.len)

\* r.prefix + prefix (line 135)
SuffixOnly(p, suffix) == suffix

ChildPrefix(p, suffix) == p \o suffix

\* The body of r.Group(prefix, handlers...): `given` is the slice header the
\* variadic parameter is bound to, h the heap holding its cells, as the slices
\* the application keeps.
GroupWith(r, prefix, h, given, as, how) ==
    LET hh == IF given.len = 0
              THEN InheritHandlers(h, groups[r].handlers)
              ELSE [heap |-> h, slice |-> given]
        gs == Append(groups,
                newRouteGroup(ChildPrefix(groups[r].prefix, prefix),
                              groups[r].router, hh.slice))
        c == Collect(hh.heap, gs, as)
    IN  /\ groups' = c.groups
        /\ heap' = c.heap
        /\ args' = c.args
        /\ fork' = Append(fork, [parent |-> r, suffix |-> prefix,
                                 explicit |-> given.len # 0,
                                 list |-> Elems(h, given)])
        /\ last' = [Op("Group", r, prefix, Elems(h, given)) EXCEPT !.how = how]

\* r.Group(prefix, h1, ..., hn): the compiler builds a fresh slice of exactly
\* n cells for the variadic parameter (nil when n = 0).
Group(r, prefix, hs) ==
    /\ fault = "none"
    /\ Len(groups) < MaxGroups
    /\ LET a == Alloc(heap, hs, Len(hs))
       IN  GroupWith(r, prefix, a.heap, a.slice, args, "literal")
    /\ UNCHANGED <<routes, regs, call, fault>>

\* hs := make([]Handler, n, c); ...; r.Group(prefix, hs...): the variadic
\* parameter is the application's own slice, which the application keeps.
GroupSpreadNew(r, prefix, hs, cap) ==
    /\ fault = "none"
    /\ Len(groups) < MaxGroups
    /\ Len(args) < MaxShared
    /\ LET a == Alloc(heap, hs, cap)
       IN  GroupWith(r, prefix, a.heap, a.slice, Append(args, a.slice), "spread")
    /\ UNCHANGED <<routes, regs, call, fault>>

\* r.Group(prefix, hs...) with a slice the application passed before.
GroupSpreadAgain(r, prefix, s) ==
    /\ fault = "none"
    /\ Len(groups) < MaxGroups
    /\ GroupWith(r, prefix, heap, s, args, "spread")
    /\ UNCHANGED <<routes, regs, call, fault>>

\* r.Use(handlers...): r.handlers = append(r.handlers, handlers...)
Use(r, hs, newcap) ==
    /\ fault = "none"
    /\ Len(Chain(r)) + Len(hs) <= MaxChain
    /\ LET a == GoAppend(heap, groups[r].handlers, hs, newcap)
           c == Collect(a.heap, [groups EXCEPT ![r].handlers = a.slice], args)
       IN  /\ groups' = c.groups
           /\ heap' = c.heap
           /\ args' = c.args
    /\ last' = Op("Use", r, <<>>, hs)
    /\ UNCHANGED <<fork, routes, regs, call, fault>>

\* ----------------------------------------------------------------- routes
GET == <<"G", "E", "T">>
POST == <<"P", "O", "S", "T">>
PUT == <<"P", "U", "T">>
PATCH == <<"P", "A", "T", "C", "H">>
DELETE == <<"D", "E", "L", "E", "T", "E">>
CONNECT == <<"C", "O", "N", "N", "E", "C", "T">>
HEAD == <<"H", "E", "A", "D">>
OPTIONS == <<"O", "P", "T", "I", "O", "N", "S">>
TRACE == <<"T", "R", "A", "C", "E">>

\* routing.Methods, the process-wide list that Any ranges over.
Methods == <<GET, POST, PUT, PATCH, DELETE, CONNECT, HEAD, OPTIONS, TRACE>>

\* newRoute(path, group): a route of the group at group.prefix + path.
newRoute(path, r) == [group |-> r, path |-> groups[r].prefix \o path]

\* route.add(method, handlers): one registration of the route.
add(rg, route, method, handlers) ==
    Append(rg, [route |-> route, method |-> method, handlers |-> handlers])

\* for _, method := range ms { route.add(method, handlers) }
RECURSIVE AddEach(_, _, _, _)
AddEach(rg, route, ms, handlers) ==
    IF ms = <<>> THEN rg
    ELSE AddEach(add(rg, route, Head(ms), handlers), route, Tail(ms), handlers)

\* newRoute(path, r).Get(handlers...) and its eight siblings: the route is
\* registered for the one method.
MethodRoute(op, method, r, path, handlers) ==
    /\ fault = "none"
    /\ Len(routes) < MaxRoutes
    /\ routes' = Append(routes, newRoute(path, r))
    /\ regs' = add(regs, Len(routes) + 1, method, handlers)
    /\ last' = Op(op, r, path, handlers)
    /\ UNCHANGED <<heap, groups, fork, args, call, fault>>

Get(r, path, handlers) == MethodRoute("Get", GET, r, path, handlers)

Post(r, path, handlers) == MethodRoute("Post", POST, r, path, handlers)

Put(r, path, handlers) == MethodRoute("Put", PUT, r, path, handlers)

Patch(r, path, handlers) == MethodRoute("Patch", PATCH, r, path, handlers)

Delete(r, path, handlers) == MethodRoute("Delete", DELETE, r, path, handlers)

Connect(r, path, handlers) == MethodRoute("Connect", CONNECT, r, path, handlers)

Head_(r, path, handlers) == MethodRoute("Head", HEAD, r, path, handlers)

Options(r, path, handlers) == MethodRoute("Options", OPTIONS, r, path, handlers)

Trace(r, path, handlers) == MethodRoute("Trace", TRACE, r, path, handlers)

\* The loop of Any (lines 77-79).
AnyLoopSkipsFirst(rg, route, handlers) == AddEach(rg, route, Tail(Methods), handlers)

AnyLoop(rg, route, handlers) == AddEach(rg, route, Methods, handlers)

\* The routes and registrations after r.Any(path, handlers...).
AnyResult(rs, rg, r, path, handlers) ==
    [routes |-> Append(rs, newRoute(path, r)),
     regs |-> AnyLoop(rg, Len(rs) + 1, handlers)]

Any(r, path, handlers) ==
    /\ fault = "none"
    /\ Len(routes) < MaxRoutes
    /\ LET a == AnyResult(routes, regs, r, path, handlers)
       IN  routes' = a.routes /\ regs' = a.regs
    /\ last' = Op("Any", r, path, handlers)
    /\ UNCHANGED <<heap, groups, fork, args, call, fault>>

\* The loop of To (lines 120-122).
ToLoopAllMethods(rg, route, methods, handlers) ==
    AddEach(rg, route, Methods, handlers)

ToLoop(rg, route, methods, handlers) ==
    AddEach(rg, route, Split(methods, Comma), handlers)

To(r, methods, path, handlers) ==
    /\ fault = "none"
    /\ Len(routes) < MaxRoutes
    /\ routes' = Append(routes, newRoute(path, r))
    /\ regs' = ToLoop(regs, Len(routes) + 1, methods, handlers)
    /\ last' = [Op("To", r, path, handlers) EXCEPT !.methods = methods]
    /\ UNCHANGED <<heap, groups, fork, args, call, fault>>

\* ------------------------------------------------------------ controllers
Nil == "nil"
ContextType == "*routing.Context"
ErrorName == "error"
Params == <<"P", "a", "r", "a", "m", "s">>
NoCall == [reg |-> 0]

\* A method as reflect describes it: NumIn counts the receiver, In1 is
\* In(1).String() (or "" without such a parameter), Out0 is Out(0).Name(), and
\* rets the values a call of it returns.
Method(name, numIn, in1, outs, rets) ==
    [Name |-> name, NumIn |-> numIn, In1 |-> in1, NumOut |-> Len(outs),
     Out0 |-> IF outs = <<>> THEN "" ELSE outs[1], rets |-> rets]

RouteMethod(name, err) == Method(name, 2, ContextType, <<ErrorName>>, <<err>>)

NameGet == <<"G", "e", "t">>
NameHelper == <<"H", "e", "l", "p", "e", "r">>
NameIndex == <<"I", "n", "d", "e", "x">>
NameList == <<"L", "i", "s", "t">>
NameShow == <<"S", "h", "o", "w">>
NameUser == <<"U", "s", "e", "r">>
NameUserAccount == NameUser \o <<"A", "c", "c", "o", "u", "n", "t">>
NameItem == <<"I", "t", "e", "m">>
NameDoc == <<"D", "o", "c">>
ParamId == <<":", "i", "d">>

\* The controller values the application registers; reflect lists the methods
\* of a type sorted by name.
Controllers == <<
    \* type User: Helper(x int) string; List(ctx) error; Show(ctx) error
    [name |-> NameUser,
     methods |-> << Method(NameHelper, 2, "int", <<"string">>, <<"s">>),
                    RouteMethod(NameList, Nil),
                    RouteMethod(NameShow, "e1") >>],
    \* type UserAccount: Show(ctx) error; ShowParams() string
    [name |-> NameUserAccount,
     methods |-> << RouteMethod(NameShow, Nil),
                    Method(NameShow \o Params, 1, "", <<"string">>, <<ParamId>>) >>],
    \* type Item: Get(ctx) error; GetParams() (string, string);
    \*            Index(ctx) error; IndexParams(); List(ctx) error;
    \*            ListParams() string
    [name |-> NameItem,
     methods |-> << RouteMethod(NameGet, "e1"),
                    Method(NameGet \o Params, 1, "", <<"string", "string">>,
                           <<ParamId, ParamId>>),
                    RouteMethod(NameIndex, Nil),
                    Method(NameIndex \o Params, 1, "", <<>>, <<>>),
                    RouteMethod(NameList, Nil),
                    Method(NameList \o Params, 1, "", <<"string">>, <<ParamId>>) >>],
    \* type Doc: Show(ctx) error; ShowParams(x int) string
    [name |-> NameDoc,
     methods |-> << RouteMethod(NameShow, "e2"),
                    Method(NameShow \o Params, 2, "int", <<"string">>, <<ParamId>>) >>]
    >>

ControllerIds == 1..Len(Controllers)

\* The filter of lines 90-91.
Eligible(m) ==
    /\ m.NumOut = 1 /\ m.Out0 = ErrorName
    /\ m.NumIn = 2 /\ m.In1 = ContextType

\* t.MethodByName(name): the index of the method, 0 when there is none.
MethodByName(t, name) ==
    IF \E i \in 1..Len(t.methods) : t.methods[i].Name = name
    THEN CHOOSE i \in 1..Len(t.methods) : t.methods[i].Name = name
    ELSE 0

\* The index read from the results of the Params method (line 98).
ParamsIndex == 1

\* Lines 92-100: the URI of method m of controller type t, or the panic that
\* replaces it.  Func.Call panics when given fewer arguments than the method
\* takes, and r[ParamsIndex] panics when r is too short.
DeriveURI(t, m) ==
    LET uri == <<Slash>> \o Underscore(t.name) \o <<Slash>> \o Underscore(m.Name)
        mt == MethodByName(t, m.Name \o Params)
    IN  IF mt = 0 THEN [fault |-> "none", uri |-> uri]
        ELSE IF t.methods[mt].NumIn # 1
        THEN [fault |-> "reflect: Call with too few input arguments", uri |-> uri]
        ELSE LET r == t.methods[mt].rets
             IN  IF Len(r) = 1
                 THEN IF ParamsIndex + 1 > Len(r)
                      THEN [fault |-> "index out of range", uri |-> uri]
                      ELSE [fault |-> "none",
                            uri |-> uri \o <<Slash>> \o r[ParamsIndex + 1]]
                 ELSE [fault |-> "none", uri |-> uri]

\* The method the handler made in iteration i refers to: `method` is declared
\* inside the loop body (line 88), one variable per iteration.
LastMethod(ms, i) == ms[Len(ms)]

Captured(ms, i) == ms[i]

\* The func literal of lines 101-111 as a value.
Adapter(c, m) == [fn |-> "adapter", controller |-> c, method |-> m]

\* The loop of lines 87-113 from method i on; st holds the routes, the
\* registrations and the fault so far.
RECURSIVE Scan(_, _, _, _)
Scan(st, r, c, i) ==
    LET t == Controllers[c]
    IN  IF i > Len(t.methods) \/ st.fault # "none" THEN st
        ELSE IF ~Eligible(t.methods[i]) THEN Scan(st, r, c, i + 1)
        ELSE LET d == DeriveURI(t, t.methods[i])
             IN  IF d.fault # "none" THEN [st EXCEPT !.fault = d.fault]
                 ELSE LET a == AnyResult(st.routes, st.regs, r, d.uri,
                                         <<Adapter(c, Captured(t.methods, i))>>)
                      IN  Scan([st EXCEPT !.routes = a.routes, !.regs = a.regs],
                               r, c, i + 1)

\* r.RegisterController(controller)
RegisterController(r, c) ==
    /\ fault = "none"
    /\ Len(last.done) < MaxControllers
    /\ LET st == Scan([routes |-> routes, regs |-> regs, fault |-> "none"],
                      r, c, 1)
       IN  /\ routes' = st.routes
           /\ regs' = st.regs
           /\ fault' = st.fault
    /\ last' = [Op("RegisterController", r, <<>>, <<>>) EXCEPT
                  !.done = Append(last.done, c)]
    /\ UNCHANGED <<heap, groups, fork, args, call>>

\* The arguments of method.Func.Call: the receiver, then ctx (lines 102-104).
CallParams(c, ctx) == <<c, ctx>>

\* errVal[0].Interface() turned into the handler's result (lines 106-110).
AdapterResult(errVal) == IF errVal[1] # Nil THEN errVal[1] ELSE Nil

\* A request with context ctx is dispatched to registration k, whose handler
\* is one of the adapters: it calls its method with the controller and ctx.
Invoke(k, ctx) ==
    /\ fault = "none"
    /\ regs[k].handlers # <<>>
    /\ LET h == regs[k].handlers[1]
           params == CallParams(h.controller, ctx)
           errVal == h.method.rets
       IN  call' = [reg |-> k, request |-> ctx, controller |-> params[1],
                    method |-> h.method.Name, ctx |-> params[2],
                    ret |-> errVal[1], result |-> AdapterResult(errVal)]
    /\ last' = [last EXCEPT !.op = "Invoke"]
    /\ UNCHANGED <<heap, groups, fork, args, routes, regs, fault>>

\* New(): the root group has prefix "" and an empty chain.
Init ==
    /\ heap = [a \in Arrays |-> <<>>]
    /\ groups = <<newRouteGroup(<<>>, Router, NilSlice)>>
    /\ fork = <<[parent |-> 0, suffix |-> <<>>, explicit |-> FALSE, list |-> <<>>]>>
    /\ args = <<>>
    /\ routes = <<>>
    /\ regs = <<>>
    /\ call = NoCall
    /\ fault = "none"
    /\ last = [op |-> "New", g |-> 0, path |-> <<>>, hs |-> <<>>,
               methods |-> <<>>, how |-> "", nroutes |-> 0, nregs |-> 0,
               done |-> <<>>]

GroupSuffixes == {<<"/", "v", "1">>}

NextGroups ==
    \/ \E r \in GroupIds, p \in GroupSuffixes, hs \in GroupLists : Group(r, p, hs)
    \/ \E r \in GroupIds, p \in GroupSuffixes, hs \in SpreadLists :
          \E c \in GrowCaps(Len(hs)) : GroupSpreadNew(r, p, hs, c)
    \/ \E r \in GroupIds, p \in GroupSuffixes, i \in 1..Len(args) :
          GroupSpreadAgain(r, p, args[i])
    \/ \E r \in GroupIds, hs \in UseLists :
          \E c \in GrowCaps(Len(Chain(r)) + Len(hs)) : Use(r, hs, c)

SpecGroups == Init /\ [][NextGroups]_vars

\* Inputs of the route operations.
RoutePaths == {<<"/", "x">>}
RouteHandlers == {<<>>, <<"h3">>}
MethodLists == {GET \o <<Comma>> \o POST, PUT, <<>>, GET \o <<Comma>>}

\* Groups are forked and routes are created through them.
NextRoutes ==
    \/ \E r \in GroupIds, p \in GroupSuffixes : Group(r, p, <<>>)
    \/ \E r \in GroupIds, p \in RoutePaths, hs \in RouteHandlers : Get(r, p, hs)
    \/ \E r \in GroupIds, p \in RoutePaths, hs \in RouteHandlers : Post(r, p, hs)
    \/ \E r \in GroupIds, p \in RoutePaths, hs \in RouteHandlers : Put(r, p, hs)
    \/ \E r \in GroupIds, p \in RoutePaths, hs \in RouteHandlers : Patch(r, p, hs)
    \/ \E r \in GroupIds, p \in RoutePaths, hs \in RouteHandlers : Delete(r, p, hs)
    \/ \E r \in GroupIds, p \in RoutePaths, hs \in RouteHandlers : Connect(r, p, hs)
    \/ \E r \in GroupIds, p \in RoutePaths, hs \in RouteHandlers : Head_(r, p, hs)
    \/ \E r \in GroupIds, p \in RoutePaths, hs \in RouteHandlers : Options(r, p, hs)
    \/ \E r \in GroupIds, p \in RoutePaths, hs \in RouteHandlers : Trace(r, p, hs)
    \/ \E r \in GroupIds, p \in RoutePaths, hs \in RouteHandlers : Any(r, p, hs)
    \/ \E r \in GroupIds, ms \in MethodLists, p \in RoutePaths, hs \in RouteHandlers :
          To(r, ms, p, hs)

SpecRoutes == Init /\ [][NextRoutes]_vars

\* Groups are forked at any depth, extended with Use, and given routes.
PrefixUses == {<<"h1">>}

NextPrefix ==
    \/ \E r \in GroupIds, p \in Suffixes : Group(r, p, <<>>)
    \/ \E r \in GroupIds, hs \in PrefixUses :
          \E c \in GrowCaps(Len(Chain(r)) + Len(hs)) : Use(r, hs, c)
    \/ \E r \in GroupIds, p \in RoutePaths : Get(r, p, <<>>)
    \/ \E r \in GroupIds, p \in RoutePaths : Post(r, p, <<>>)
    \/ \E r \in GroupIds, p \in RoutePaths : Put(r, p, <<>>)
    \/ \E r \in GroupIds, p \in RoutePaths : Patch(r, p, <<>>)
    \/ \E r \in GroupIds, p \in RoutePaths : Delete(r, p, <<>>)
    \/ \E r \in GroupIds, p \in RoutePaths : Connect(r, p, <<>>)
    \/ \E r \in GroupIds, p \in RoutePaths : Head_(r, p, <<>>)
    \/ \E r \in GroupIds, p \in RoutePaths : Options(r, p, <<>>)
    \/ \E r \in GroupIds, p \in RoutePaths : Trace(r, p, <<>>)
    \/ \E r \in GroupIds, p \in RoutePaths : Any(r, p, <<>>)
    \/ \E r \in GroupIds, p \in RoutePaths : To(r, GET \o <<Comma>> \o POST, p, <<>>)

SpecPrefix == Init /\ [][NextPrefix]_vars

\* Routes are created through groups that were forked with handler slices
\* of the application and whose chains keep growing.
LiveUses == {<<"h1">>, <<"h3">>}
LiveHandlers == {<<>>}

NextLive ==
    \/ \E r \in GroupIds, p \in GroupSuffixes, hs \in SpreadLists :
          \E c \in GrowCaps(Len(hs)) : GroupSpreadNew(r, p, hs, c)
    \/ \E r \in GroupIds, p \in GroupSuffixes, i \in 1..Len(args) :
          GroupSpreadAgain(r, p, args[i])
    \/ \E r \in GroupIds, hs \in LiveUses :
          \E c \in GrowCaps(Len(Chain(r)) + Len(hs)) : Use(r, hs, c)
    \/ \E r \in GroupIds, p \in RoutePaths, hs \in LiveHandlers : Get(r, p, hs)
    \/ \E r \in GroupIds, p \in RoutePaths, hs \in LiveHandlers : Post(r, p, hs)
    \/ \E r \in GroupIds, p \in RoutePaths, hs \in LiveHandlers : Put(r, p, hs)
    \/ \E r \in GroupIds, p \in RoutePaths, hs \in LiveHandlers : Patch(r, p, hs)
    \/ \E r \in GroupIds, p \in RoutePaths, hs \in LiveHandlers : Delete(r, p, hs)
    \/ \E r \in GroupIds, p \in RoutePaths, hs \in LiveHandlers : Connect(r, p, hs)
    \/ \E r \in GroupIds, p \in RoutePaths, hs \in LiveHandlers : Head_(r, p, hs)
    \/ \E r \in GroupIds, p \in RoutePaths, hs \in LiveHandlers : Options(r, p, hs)
    \/ \E r \in GroupIds, p \in RoutePaths, hs \in LiveHandlers : Trace(r, p, hs)
    \/ \E r \in GroupIds, p \in RoutePaths, hs \in LiveHandlers : Any(r, p, hs)
    \/ \E r \in GroupIds, p \in RoutePaths, hs \in LiveHandlers :
          To(r, GET \o <<Comma>> \o POST, p, hs)

SpecLive == Init /\ [][NextLive]_vars

\* Controllers are registered on groups and requests reach their routes.
Contexts == {"ctx1", "ctx2"}

NextCtrl ==
    \/ \E r \in GroupIds, p \in GroupSuffixes : Group(r, p, <<>>)
    \/ \E r \in GroupIds, c \in ControllerIds : RegisterController(r, c)
    \/ \E k \in 1..Len(regs), ctx \in Contexts : Invoke(k, ctx)

SpecCtrl == Init /\ [][NextCtrl]_vars

\* ------------------------------------------------------------------ claims
\* The full prefix of group g as the forks that led to it spell it.
RECURSIVE PathOf(_)
PathOf(g) == IF g = 1 THEN <<>> ELSE PathOf(fork[g].parent) \o fork[g].suffix

RouteOpNames == {"Get", "Post", "Put", "Patch", "Delete", "Connect", "Head",
                 "Options", "Trace", "Any", "To"}

\* C1: a child forked with no explicit handlers starts with the parent's chain
\* of that moment, and afterwards a Use on the parent leaves the child's chain
\* as it was and a Use on the child leaves the parent's chain as it was.
C1_ForkIsSnapshot ==
    [][/\ (Len(groups') = Len(groups) + 1 /\ ~fork'[Len(groups')].explicit)
          => ChainIn(heap', groups', Len(groups'))
               = Chain(fork'[Len(groups')].parent)
       /\ \A g \in GroupIds, c \in GroupIds :
            (fork[c].parent = g /\ ~fork[c].explicit /\ last'.op = "Use")
            => /\ last'.g = g => ChainIn(heap', groups', c) = Chain(c)
               /\ last'.g = c => ChainIn(heap', groups', g) = Chain(g)]_vars

\* G.Use(h1); G2 = G.Group("/v1"); G2.Use(h2); G.Use(h3)
C1_Example ==
    /\ Len(groups) >= 2
    /\ fork[2].parent = 1 /\ ~fork[2].explicit
    /\ Chain(1) = <<"h1", "h3">>
    /\ Chain(2) = <<"h1", "h2">>

\* C2: a child forked with a non-empty handler list has exactly that list as
\* its chain, no Use on another group changes its chain, and a Use on it
\* changes no other group's chain.
C2_ExplicitIsIndependent ==
    [][/\ (Len(groups') = Len(groups) + 1 /\ fork'[Len(groups')].explicit)
          => ChainIn(heap', groups', Len(groups')) = fork'[Len(groups')].list
       /\ \A c \in GroupIds, g \in GroupIds :
            (fork[c].explicit /\ last'.op = "Use" /\ g # c)
            => /\ last'.g = g => ChainIn(heap', groups', c) = Chain(c)
               /\ last'.g = c => ChainIn(heap', groups', g) = Chain(g)]_vars

\* C9: Use(h1..hn) turns the chain of its group into the old chain followed by
\* h1..hn, and over every step every group's chain is a prefix of its chain
\* after the step.
C9_AppendOnly ==
    [][/\ last'.op = "Use"
          => ChainIn(heap', groups', last'.g) = Chain(last'.g) \o last'.hs
       /\ \A g \in GroupIds :
            IsPrefix(Chain(g), ChainIn(heap', groups', g))]_vars

\* C10: every route is made with the group it was created through; after a
\* Use on a group, the chain read through the group reference of each of its
\* routes is the old chain followed by the handlers of that Use, while the
\* chain of every group forked from it before the Use is as it was.
C10_LiveGroupReference ==
    [][/\ Len(routes') = Len(routes) + 1
          => routes'[Len(routes')].group = last'.g
       /\ last'.op = "Use"
          => /\ \A i \in 1..Len(routes) :
                  routes[i].group = last'.g
                  => ChainIn(heap', groups', routes'[i].group)
                       = Chain(last'.g) \o last'.hs
             /\ \A c \in GroupIds :
                  fork[c].parent = last'.g
                  => ChainIn(heap', groups', c) = Chain(c)]_vars

\* C6: the prefix of every group is its parent's prefix followed by the suffix
\* it was forked with, at every depth and at all times, and the route an
\* operation of group g creates belongs to g and has the path prefix(g) + path.
C6_PrefixComposition ==
    /\ \A g \in GroupIds : groups[g].prefix = PathOf(g)
    /\ last.op \in RouteOpNames
       => /\ Len(routes) = last.nroutes + 1
          /\ routes[Len(routes)].group = last.g
          /\ routes[Len(routes)].path = PathOf(last.g) \o last.path

\* a route through a group nested two forks deep
C6_Nested ==
    /\ last.op = "Get"
    /\ last.g # 1 /\ fork[last.g].parent # 1
    /\ routes[Len(routes)].path =
         <<"/", "a", "p", "i", "/", "v", "1", "/", "x">>

\* C7: Any creates one route and registers it once for each entry of Methods,
\* in the order of the list, each time with the handlers given, and nothing
\* else.
C7_AnyRegistersMethods ==
    last.op = "Any"
    => /\ Len(routes) = last.nroutes + 1
       /\ Len(regs) = last.nregs + Len(Methods)
       /\ \A i \in 1..Len(Methods) :
            regs[last.nregs + i] = [route |-> Len(routes), method |-> Methods[i],
                                    handlers |-> last.hs]
       /\ \A i \in 1..Len(Methods), j \in 1..Len(Methods) :
            i # j => regs[last.nregs + i].method # regs[last.nregs + j].method

C7_Witness == last.op = "Any" /\ last.hs = <<"h3">> /\ Len(regs) = Len(Methods)

\* C8: To creates one route and registers it for the names that, joined with
\* commas, spell the list given and hold no comma themselves (the pieces of
\* the list), unvalidated; "GET,POST" registers GET and POST and not PUT.
C8_ToRegistersPieces ==
    last.op = "To"
    => LET new == SubSeq(regs, last.nregs + 1, Len(regs))
           ms == [i \in 1..Len(new) |-> new[i].method]
       IN  /\ fault = "none"
           /\ Len(routes) = last.nroutes + 1
           /\ Len(ms) >= 1
           /\ Join(ms, Comma) = last.methods
           /\ \A i \in 1..Len(ms) : \A k \in 1..Len(ms[i]) : ms[i][k] # Comma
           /\ \A i \in 1..Len(new) :
                new[i].route = Len(routes) /\ new[i].handlers = last.hs
           /\ last.methods = GET \o <<Comma>> \o POST
              => {ms[i] : i \in 1..Len(ms)} = {GET, POST}

C8_Witness ==
    /\ last.op = "To" /\ last.methods = GET \o <<Comma>> \o POST
    /\ Len(regs) = 2 /\ regs[1].method = GET /\ regs[2].method = POST

\* The two-segment URI of method m of controller type t.
URI2(t, m) == <<Slash>> \o Underscore(t.name) \o <<Slash>> \o Underscore(m.Name)

\* The routes the latest operation created.
NewRoutes == {routes[i] : i \in (last.nroutes + 1)..Len(routes)}

\* C3: after RegisterController, an eligible method M whose sibling MParams
\* takes no argument and returns one string s has a route at
\* /type/m/s and there was no fault; an eligible method with no such sibling,
\* or one that does not return exactly one value, has a route at /type/m.
C3_ParamsSegment ==
    last.op = "RegisterController"
    => LET t == Controllers[last.done[Len(last.done)]]
       IN  \A i \in 1..Len(t.methods) :
             Eligible(t.methods[i])
             => LET p == MethodByName(t, t.methods[i].Name \o Params)
                    base == groups[last.g].prefix \o URI2(t, t.methods[i])
                IN  IF p # 0 /\ t.methods[p].NumIn = 1 /\ t.methods[p].NumOut = 1
                    THEN /\ fault = "none"
                         /\ \E rt \in NewRoutes :
                              rt.path = base \o <<Slash>> \o t.methods[p].rets[1]
                    ELSE (p = 0 \/ t.methods[p].NumIn = 1)
                         => \E rt \in NewRoutes : rt.path = base

\* C5: RegisterController creates a route for every eligible method and for
\* no other method: as many routes as eligible methods, each at the URI of one.
C5_EligibleOnly ==
    last.op = "RegisterController"
    => LET t == Controllers[last.done[Len(last.done)]]
           el == {i \in 1..Len(t.methods) : Eligible(t.methods[i])}
       IN  /\ Len(routes) - last.nroutes = Cardinality(el)
           /\ \A i \in el : \E rt \in NewRoutes :
                IsPrefix(groups[last.g].prefix \o URI2(t, t.methods[i]), rt.path)
           /\ \A rt \in NewRoutes : \E i \in el :
                IsPrefix(groups[last.g].prefix \o URI2(t, t.methods[i]), rt.path)

\* C4: the handler registered at the URI of an eligible method calls that
\* method of the registered controller with the context of the request and
\* returns what the method returned.
C4_HandlerCallsItsMethod ==
    call.reg # 0
    => LET rt == routes[regs[call.reg].route]
       IN  \E n \in 1..Len(last.done) :
             LET t == Controllers[last.done[n]]
             IN  \E i \in 1..Len(t.methods) :
                   /\ Eligible(t.methods[i])
                   /\ rt.path = groups[rt.group].prefix \o URI2(t, t.methods[i])
                   /\ call.controller = last.done[n]
                   /\ call.method = t.methods[i].Name
                   /\ call.ctx = call.request
                   /\ call.result = t.methods[i].rets[1]

\* the route of User.Show answers a request with the error Show returned,
\* while User.List is registered beside it
C4_Witness ==
    /\ call.reg # 0
    /\ call.controller = 1 /\ call.method = NameShow
    /\ call.request = "ctx2" /\ call.result = "e1"
    /\ \E rt \in {routes[i] : i \in 1..Len(routes)} :
         rt.path = groups[rt.group].prefix \o URI2(Controllers[1], Controllers[1].methods[2])

====
